---- MODULE Spec2Model ----
(***************************************************************************)
(* A model of python-gssapi's raw name layer (gssapi/raw/names.pyx, the    *)
(* Name wrapper and the name operations) and of its status decoding        *)
(* (gssapi/raw/misc.pyx, display_status and GSSError).                     *)
(*                                                                         *)
(* The GSSAPI mechanism provider is an external collaborator: every        *)
(* status it can return is a nondeterministic choice of the model.  A      *)
(* resource (a gss_name_t the provider allocated) is an uninterpreted      *)
(* token that the provider hands out once; the provider remembers the      *)
(* bytes and type a name was imported from and whether it was              *)
(* canonicalized.                                                          *)
(***************************************************************************)
EXTENDS Integers, Sequences, FiniteSets, TLC

\* ------------------------------------------------------------------ bounds
\* Name wrapper objects that can exist at the same time.
MaxNames == 2
\* Resources (gss_name_t values) the provider hands out in one behaviour.
MaxRes == 2

\* Message contexts gss_display_status returns range over 0..MaxCtx.
MaxCtx == 2
\* gss_display_status calls made while one GSSError is constructed.
MaxQueries == 6
\* Nested GSSError constructions the interpreter allows before it raises
\* RecursionError (its recursion limit).
MaxDepth == 2
\* Longest byte string passed to import_name.
MaxLen == 1
\* Threads that call into the name layer at the same time.
MaxThreads == 2

\* --------------------------------------------------------------- constants
GSS_C_NO_NAME == 0
GSS_S_COMPLETE == 0
\* Python's None, for an optional Name or OID argument.
None == 0
GSS_C_NO_OID == 0
\* The routine error "the name is not a mechanism name" that export_name
\* documents as MechanismNameRequiredError.
GSS_S_NAME_NOT_MN == 18

Wrappers == 1..MaxNames
Resources == 1..MaxRes
\* The (major, minor) status pairs the provider answers a name primitive with:
\* success, and a failure whose two codes differ.
NameStatus == {<<GSS_S_COMPLETE, 0>>, <<2, 1>>}

VARIABLES
    live,       \* live[w]: the Name object w exists
    raw_name,   \* raw_name[w]: the gss_name_t held by w (GSS_C_NO_NAME if none)
    origin,     \* provider: origin[r] is the primitive that allocated r
    released,   \* provider: gss_release_name invocations on r: 0, 1, or
                \* 2 for "twice or more"
    calls,      \* provider primitive invocations made by the last operation
    last,       \* the last operation, its arguments and how it ended
    pname,      \* provider: pname[r] is the name r stands for: its bytes, its
                \* type and whether it is a mechanism name
    result      \* what the last operation returned

namevars == <<live, raw_name, origin, released, calls, last, pname, result>>

VARIABLES
    stack,      \* the GSSError constructions in progress, innermost last
    report,     \* how the outermost construction ended
    queried,    \* <<code, is_major>> pairs gss_display_status was asked about
    nruns,      \* get_all_statuses calls made since the construction began
    nqueries,   \* gss_display_status calls made since the construction began
    gen,        \* provider: which of its two message tables is in force
    seen        \* the message last read from the report

errvars == <<stack, report, queried, nruns, nqueries, gen, seen>>

VARIABLES
    thr,        \* thr[t]: the import_name or canonicalize_name call thread t
                \* is in or was last in, with its C locals
    latest      \* provider: the handle it stored last, in any thread

concvars == <<thr, latest>>

vars == <<namevars, errvars, concvars>>

\* ------------------------------------------------------- provider (extern)
\* A provider call: the primitive, the gss_name_t arguments passed to it, the
\* status it answered and, for gss_display_name and gss_compare_name, whether
\* output_name_type points at a variable and the integer the provider stored
\* (the name type, is_equal).
CallOut(prim, names, maj, min, type_ptr, out) ==
    [prim |-> prim, names |-> names, status |-> <<maj, min>>,
     type_ptr |-> type_ptr, out |-> out]

Call(prim, names, maj, min) == CallOut(prim, names, maj, min, FALSE, 0)

\* The resource a successful import/canonicalize/duplicate returns: one the
\* provider has not handed out before.
Unallocated == {r \in Resources : origin[r] = "none"}

NewResource == CHOOSE r \in Unallocated : \A q \in Unallocated : r <= q

\* gss_release_name(&min_stat, &name) was invoked on handle value h.
CountRelease(h) ==
    IF h = GSS_C_NO_NAME THEN released
    ELSE [released EXCEPT ![h] = IF @ = 0 THEN 1 ELSE 2]

\* Name types: one OID, and None / GSS_C_NO_OID for "no type".
Oids == {1}

\* Byte strings: a byte is NUL (0) or not (1).
ByteSeqs == UNION {[1..n -> {0, 1}] : n \in 0..MaxLen}

\* What the provider knows about a handle value: the bytes it was imported
\* from, its type, and whether canonicalization made it a mechanism name.
\* given is the bytes object import_name was called with.
NoData ==
    [text |-> <<>>, type |-> GSS_C_NO_OID, mech |-> FALSE, given |-> <<>>]

NameData(h) == IF h = GSS_C_NO_NAME THEN NoData ELSE pname[h]

\* Once gss_release_name has been invoked on h the provider's name is gone.
Forget(h) ==
    IF h = GSS_C_NO_NAME THEN pname ELSE [pname EXCEPT ![h] = NoData]

\* A gss_buffer_desc holding bytes: its length field and its value pointer.
Buffer(bytes) == [length |-> Len(bytes), value |-> bytes]

\* The bytes of a buffer read as a C string: up to the first NUL.
BufferBytes_cstring(buf) ==
    LET nul == {i \in 1..Len(buf.value) : buf.value[i] = 0}
        end == IF nul = {} THEN Len(buf.value)
               ELSE (CHOOSE i \in nul : \A j \in nul : i <= j) - 1
    IN SubSeq(buf.value, 1, end)

\* The bytes of a buffer: value[:length].
BufferBytes(buf) == SubSeq(buf.value, 1, buf.length)

\* The statuses gss_export_name can answer for handle value h: a name that is
\* not a mechanism name is refused with GSS_S_NAME_NOT_MN ("The input name
\* must be a valid GSSAPI mechanism name", Raises MechanismNameRequiredError).
\* Nothing is known about a handle gss_release_name was invoked on.
gss_export_name_status(h) ==
    IF h # GSS_C_NO_NAME /\ released[h] = 0 /\ ~NameData(h).mech
    THEN {<<GSS_S_NAME_NOT_MN, 0>>}
    ELSE NameStatus \cup {<<GSS_S_NAME_NOT_MN, 0>>}

\* How an operation ended: returned normally, or raised GSSError(maj, min).
Returned == <<>>
Raised(maj, min) == <<maj, min>>

\* The record of an operation: arg is its second argument (a Name or None;
\* for display_name, 1 if name_type is true and 0 if not).
Op(op, self, arg, pre, exc) ==
    [op |-> op, self |-> self, arg |-> arg, pre |-> pre, exc |-> exc]

\* What an operation returned: nothing when it raised, else the fields that
\* its return value has (a Name, a DisplayNameResult, a bool or bytes).
NoResult ==
    [returned |-> FALSE, handle |-> None, text |-> <<>>, name_type |-> None,
     equal |-> FALSE, bytes |-> <<>>]

ReturnedValue == [NoResult EXCEPT !.returned = TRUE]

\* ------------------------------------------------------------- class Name
\* Name.__cinit__ as a copy constructor would be: cpy keeps its raw_name.
Name__cinit__copy(self, cpy) ==
    /\ ~live[self]
    /\ cpy # self
    /\ cpy # None => live[cpy]
    /\ live' = [live EXCEPT ![self] = TRUE]
    /\ raw_name' =
         IF cpy # None
         THEN [raw_name EXCEPT ![self] = raw_name[cpy]]
         ELSE [raw_name EXCEPT ![self] = GSS_C_NO_NAME]
    /\ calls' = <<>>
    /\ last' = Op("Name", self, cpy,
                  IF cpy # None THEN raw_name[cpy] ELSE GSS_C_NO_NAME, Returned)
    /\ result' = [ReturnedValue EXCEPT !.handle = self]
    /\ UNCHANGED <<origin, released, pname, errvars, concvars>>

\* Name.__cinit__ with the two assignments in the wrong order: cpy is cleared
\* before its raw_name is read.
Name__cinit__cleared(self, cpy) ==
    /\ ~live[self]
    /\ cpy # self
    /\ cpy # None => live[cpy]
    /\ live' = [live EXCEPT ![self] = TRUE]
    /\ raw_name' =
         IF cpy # None
         THEN [raw_name EXCEPT ![self] = GSS_C_NO_NAME, ![cpy] = GSS_C_NO_NAME]
         ELSE [raw_name EXCEPT ![self] = GSS_C_NO_NAME]
    /\ calls' = <<>>
    /\ last' = Op("Name", self, cpy,
                  IF cpy # None THEN raw_name[cpy] ELSE GSS_C_NO_NAME, Returned)
    /\ result' = [ReturnedValue EXCEPT !.handle = self]
    /\ UNCHANGED <<origin, released, pname, errvars, concvars>>

\* Name.__cinit__(self, cpy=None): self is the object being constructed.
Name__cinit__(self, cpy) ==
    /\ ~live[self]
    /\ cpy # self
    /\ cpy # None => live[cpy]
    /\ live' = [live EXCEPT ![self] = TRUE]
    /\ raw_name' =
         IF cpy # None
         THEN [raw_name EXCEPT ![self] = raw_name[cpy], ![cpy] = GSS_C_NO_NAME]
         ELSE [raw_name EXCEPT ![self] = GSS_C_NO_NAME]
    /\ calls' = <<>>
    /\ last' = Op("Name", self, cpy,
                  IF cpy # None THEN raw_name[cpy] ELSE GSS_C_NO_NAME, Returned)
    /\ result' = [ReturnedValue EXCEPT !.handle = self]
    /\ UNCHANGED <<origin, released, pname, errvars, concvars>>

\* Name.__dealloc__ without its test of raw_name.
DeallocCalls_unguarded(h, maj, min) ==
    <<Call("gss_release_name", <<h>>, maj, min)>>

\* The provider calls of Name.__dealloc__ on an object holding h.
DeallocCalls(h, maj, min) ==
    IF h # GSS_C_NO_NAME
    THEN <<Call("gss_release_name", <<h>>, maj, min)>> ELSE <<>>

\* Name.__dealloc__(self): the object goes away whatever the release reports;
\* a GSSError raised here is reported as unraisable.
Name__dealloc__(self, maj, min) ==
    /\ live[self]
    /\ raw_name[self] = GSS_C_NO_NAME => maj = GSS_S_COMPLETE /\ min = 0
    /\ calls' = DeallocCalls(raw_name[self], maj, min)
    /\ released' = IF raw_name[self] # GSS_C_NO_NAME
                   THEN CountRelease(raw_name[self]) ELSE released
    /\ live' = [live EXCEPT ![self] = FALSE]
    /\ raw_name' = [raw_name EXCEPT ![self] = GSS_C_NO_NAME]
    /\ last' = Op("dealloc", self, None, raw_name[self],
                  IF maj # GSS_S_COMPLETE THEN Raised(maj, min) ELSE Returned)
    /\ pname' = Forget(raw_name[self])
    /\ result' = NoResult
    /\ UNCHANGED <<origin, errvars, concvars>>

\* ------------------------------------------------------------- operations
\* The handle a new Name is given if the input's handle were stored in it
\* instead of the provider's output.
OutputName_input(args) == IF args = <<>> THEN NewResource ELSE args[1]

\* The handle a new Name is given: output_name, which the provider set to the
\* resource it allocated.
OutputName(args) == NewResource

\* A call that returns a new Name on success: import_name, canonicalize_name
\* and duplicate_name all end the same way (cdef Name on = Name(); if
\* maj_stat == GSS_S_COMPLETE: on.raw_name = <output>; return on; else raise).
\* On failure the temporary on holds GSS_C_NO_NAME when it is dropped.  data
\* is the name the provider makes the new resource stand for.
NewName(op, prim, name, args, data, on, maj, min) ==
    /\ ~live[on]
    /\ maj = GSS_S_COMPLETE => Unallocated # {}
    /\ IF maj = GSS_S_COMPLETE
       THEN /\ origin' = [origin EXCEPT ![NewResource] = prim]
            /\ pname' = [pname EXCEPT ![NewResource] = data]
            /\ live' = [live EXCEPT ![on] = TRUE]
            /\ raw_name' = [raw_name EXCEPT ![on] = OutputName(args)]
            /\ calls' = <<Call(prim, args, maj, min)>>
            /\ last' = Op(op, on, name, GSS_C_NO_NAME, Returned)
            /\ result' = [ReturnedValue EXCEPT !.handle = on]
       ELSE /\ UNCHANGED <<origin, pname, live, raw_name>>
            /\ calls' = <<Call(prim, args, maj, min)>>
                         \o DeallocCalls(GSS_C_NO_NAME, GSS_S_COMPLETE, 0)
            /\ last' = Op(op, None, name, GSS_C_NO_NAME, Raised(maj, min))
            /\ result' = NoResult
    /\ UNCHANGED <<released, errvars, concvars>>

\* import_name(name, name_type=None): name is bytes, name_type an OID or None.
import_name(on, name, name_type, maj, min) ==
    LET nt == IF name_type = None THEN GSS_C_NO_OID ELSE name_type
        name_buffer == [length |-> Len(name), value |-> name]
    IN NewName("import_name", "gss_import_name", None, <<>>,
               [text |-> BufferBytes(name_buffer), type |-> nt, mech |-> FALSE,
                given |-> name],
               on, maj, min)

canonicalize_name(name, on, maj, min) ==
    /\ live[name]
    /\ NewName("canonicalize_name", "gss_canonicalize_name", name,
               <<raw_name[name]>>,
               [NameData(raw_name[name]) EXCEPT !.mech = TRUE], on, maj, min)

duplicate_name(name, on, maj, min) ==
    /\ live[name]
    /\ NewName("duplicate_name", "gss_duplicate_name", name,
               <<raw_name[name]>>, NameData(raw_name[name]), on, maj, min)

\* A read-only call that returns its value whatever the status is.
ReadName_unchecked(op, call, name, other, value, maj, min) ==
    /\ calls' = <<call>>
    /\ last' = Op(op, name, other, raw_name[name], Returned)
    /\ result' = value
    /\ UNCHANGED <<live, raw_name, origin, released, pname, errvars, concvars>>

\* A call that only reads its names: display_name, export_name, compare_name
\* all end with "if maj_stat == GSS_S_COMPLETE: return <value>; else: raise
\* GSSError(maj_stat, min_stat)".
ReadName(op, call, name, other, value, maj, min) ==
    /\ calls' = <<call>>
    /\ last' = Op(op, name, other, raw_name[name],
                  IF maj # GSS_S_COMPLETE THEN Raised(maj, min) ELSE Returned)
    /\ result' = IF maj = GSS_S_COMPLETE THEN value ELSE NoResult
    /\ UNCHANGED <<live, raw_name, origin, released, pname, errvars, concvars>>

\* display_name that asks the provider for the type whatever name_type is.
TypePtr_always(name_type) == TRUE

\* output_name_type_ptr is &output_name_type if name_type, else NULL.
TypePtr(name_type) == name_type

\* py_name_type of display_name: None unless name_type was asked for and the
\* provider set output_name_type to something other than GSS_C_NO_OID.
PyNameType(name_type, output_name_type) ==
    IF name_type
    THEN IF output_name_type = GSS_C_NO_OID THEN None ELSE output_name_type
    ELSE None

\* display_name(name, name_type=True): output_name_type is what the provider
\* stores through output_name_type_ptr when it succeeds.  The provider
\* displays a name as the bytes it was imported from.
display_name(name, name_type, maj, min, output_name_type) ==
    /\ live[name]
    /\ LET output_buffer == Buffer(NameData(raw_name[name]).text)
           text == BufferBytes(output_buffer)
       IN ReadName("display_name",
                   CallOut("gss_display_name", <<raw_name[name]>>, maj, min,
                           TypePtr(name_type), output_name_type),
                   name, IF name_type THEN 1 ELSE 0,
                   [ReturnedValue EXCEPT
                       !.text = text,
                       !.name_type = PyNameType(name_type, output_name_type)],
                   maj, min)

\* export_name(name): exported_name is the buffer the provider fills.
export_name(name, maj, min) ==
    /\ live[name]
    /\ <<maj, min>> \in gss_export_name_status(raw_name[name])
    /\ LET exported_name == Buffer(NameData(raw_name[name]).text)
       IN ReadName("export_name",
                   Call("gss_export_name", <<raw_name[name]>>, maj, min),
                   name, None,
                   [ReturnedValue EXCEPT !.bytes = BufferBytes(exported_name)],
                   maj, min)

\* compare_name without its tests for None: both absent is the only case it
\* would still answer itself.
NoneCompare_provider(name1, name2) == name1 = None /\ name2 = None

\* compare_name answers itself when a name is None.
NoneCompare(name1, name2) == name1 = None \/ name2 = None

\* compare_name(name1=None, name2=None): is_equal is the int the provider
\* stores when it succeeds.
compare_name(name1, name2, maj, min, is_equal) ==
    /\ name1 # None => live[name1]
    /\ name2 # None => live[name2]
    /\ IF NoneCompare(name1, name2)
       THEN /\ maj = GSS_S_COMPLETE /\ min = 0 /\ is_equal = 0
            /\ calls' = <<>>
            /\ last' = Op("compare_name", name1, name2, GSS_C_NO_NAME, Returned)
            /\ result' = [ReturnedValue EXCEPT
                             !.equal = (name1 = None /\ name2 = None)]
            /\ UNCHANGED <<live, raw_name, origin, released, pname, errvars, concvars>>
       ELSE LET h1 == IF name1 = None THEN GSS_C_NO_NAME ELSE raw_name[name1]
                h2 == IF name2 = None THEN GSS_C_NO_NAME ELSE raw_name[name2]
            IN /\ calls' = <<CallOut("gss_compare_name", <<h1, h2>>, maj, min,
                                     FALSE, is_equal)>>
               /\ last' = Op("compare_name", name1, name2, h1,
                             IF maj # GSS_S_COMPLETE
                             THEN Raised(maj, min) ELSE Returned)
               /\ result' = IF maj = GSS_S_COMPLETE
                            THEN [ReturnedValue EXCEPT !.equal = (is_equal # 0)]
                            ELSE NoResult
               /\ UNCHANGED <<live, raw_name, origin, released, pname, errvars, concvars>>

\* release_name(name): the primitive is invoked on &name.raw_name whatever it
\* holds.  On failure the function raises before name.raw_name = NULL, so the
\* field keeps what the provider left in it: reset is TRUE when the provider
\* itself cleared the field.
release_name(name, maj, min, reset) ==
    /\ live[name]
    /\ maj = GSS_S_COMPLETE => ~reset
    /\ calls' = <<Call("gss_release_name", <<raw_name[name]>>, maj, min)>>
    /\ released' = CountRelease(raw_name[name])
    /\ raw_name' =
         IF maj # GSS_S_COMPLETE /\ ~reset
         THEN raw_name
         ELSE [raw_name EXCEPT ![name] = GSS_C_NO_NAME]
    /\ last' = Op("release_name", name, None, raw_name[name],
                  IF maj # GSS_S_COMPLETE THEN Raised(maj, min) ELSE Returned)
    /\ pname' = Forget(raw_name[name])
    /\ result' = IF maj = GSS_S_COMPLETE THEN ReturnedValue ELSE NoResult
    /\ UNCHANGED <<live, origin, errvars, concvars>>

\* ------------------------------------------------------------------- names
NameInit ==
    /\ live = [w \in Wrappers |-> FALSE]
    /\ raw_name = [w \in Wrappers |-> GSS_C_NO_NAME]
    /\ origin = [r \in Resources |-> "none"]
    /\ released = [r \in Resources |-> 0]
    /\ calls = <<>>
    /\ last = Op("init", None, None, GSS_C_NO_NAME, Returned)
    /\ pname = [r \in Resources |-> NoData]
    /\ result = NoResult

\* A new object takes the first free slot: which slot it takes is immaterial.
Fresh == {w \in Wrappers : ~live[w] /\ \A v \in Wrappers : v < w => live[v]}

\* The operations that create, move, release or destroy a handle.  What a
\* handle goes through does not depend on the name's bytes or type: one name
\* is imported.
LifeNext ==
    \/ \E self \in Fresh, cpy \in Wrappers \cup {None} :
          Name__cinit__(self, cpy)
    \/ \E self \in Wrappers, st \in NameStatus :
          Name__dealloc__(self, st[1], st[2])
    \/ \E on \in Fresh, st \in NameStatus :
          import_name(on, <<1>>, None, st[1], st[2])
    \/ \E name \in Wrappers, on \in Fresh, st \in NameStatus :
          canonicalize_name(name, on, st[1], st[2])
    \/ \E name \in Wrappers, on \in Fresh, st \in NameStatus :
          duplicate_name(name, on, st[1], st[2])
    \/ \E name \in Wrappers, st \in NameStatus, reset \in BOOLEAN :
          release_name(name, st[1], st[2], reset)

\* Every operation of the name layer.
NameNext ==
    \/ LifeNext
    \/ \E name \in Wrappers, st \in NameStatus :
          display_name(name, TRUE, st[1], st[2], GSS_C_NO_OID)
    \/ \E name \in Wrappers, st \in NameStatus \cup {<<GSS_S_NAME_NOT_MN, 0>>} :
          export_name(name, st[1], st[2])
    \/ \E name1 \in Wrappers \cup {None}, name2 \in Wrappers \cup {None},
          st \in NameStatus :
          compare_name(name1, name2, st[1], st[2], 0)

\* The bytes that go into and come out of the provider: names are imported
\* from every byte string and type, and displayed.
TextNext ==
    \/ \E on \in Fresh, name \in ByteSeqs, name_type \in Oids \cup {None},
          st \in NameStatus :
          import_name(on, name, name_type, st[1], st[2])
    \/ \E name \in Wrappers, name_type \in BOOLEAN, st \in NameStatus,
          output_name_type \in Oids \cup {GSS_C_NO_OID} :
          /\ st[1] # GSS_S_COMPLETE \/ ~name_type
                => output_name_type = GSS_C_NO_OID
          /\ display_name(name, name_type, st[1], st[2], output_name_type)

\* The values the operations return: names are imported with and without a
\* type, canonicalized and duplicated, displayed with and without their
\* type, compared and exported; no handle is dropped.
ValNext ==
    \/ \E on \in Fresh, name_type \in Oids \cup {None}, st \in NameStatus :
          import_name(on, <<1>>, name_type, st[1], st[2])
    \/ \E name \in Wrappers, on \in Fresh, st \in NameStatus :
          canonicalize_name(name, on, st[1], st[2])
    \/ \E name \in Wrappers, on \in Fresh, st \in NameStatus :
          duplicate_name(name, on, st[1], st[2])
    \/ \E name \in Wrappers, name_type \in BOOLEAN, st \in NameStatus,
          output_name_type \in Oids \cup {GSS_C_NO_OID} :
          /\ st[1] # GSS_S_COMPLETE \/ ~name_type
                => output_name_type = GSS_C_NO_OID
          /\ display_name(name, name_type, st[1], st[2], output_name_type)
    \/ \E name \in Wrappers,
          st \in NameStatus \cup {<<GSS_S_NAME_NOT_MN, 0>>} :
          export_name(name, st[1], st[2])
    \/ \E name1 \in Wrappers \cup {None}, name2 \in Wrappers \cup {None},
          st \in NameStatus, is_equal \in {0, 1} :
          /\ st[1] # GSS_S_COMPLETE => is_equal = 0
          /\ compare_name(name1, name2, st[1], st[2], is_equal)

\* ------------------------------------------------- misc.pyx: GSSError
\* The status codes GSSError is constructed from and gss_display_status
\* fails with: GSS_S_COMPLETE and one other value.
Codes == {GSS_S_COMPLETE, 1}
Contexts == 0..MaxCtx

\* The message gss_display_status has for (code, kind) at context ctx.
StatusString(code, is_maj, ctx) == <<"status", code, is_maj, ctx, gen>>

\* 'issue decoding code: {0}'.format(code)
Placeholder(code) == <<"issue decoding code: ", code>>

\* "Major ({maj_stat}): {maj_str}, Minor ({min_stat}): {min_str}".format(...)
FormatMessage(maj_stat, maj_str, min_stat, min_str) ==
    <<"Major (", maj_stat, "): ", maj_str, ", Minor (", min_stat, "): ", min_str>>

\* One GSSError.__init__ in progress: gen_message is in get_all_statuses for
\* the major code (is_maj) or the minor code, either before its first
\* display_status call (pc = "first") or at the test of "while cont"
\* (pc = "loop").  log is the decoder's queries so far: the context passed,
\* whether the provider succeeded, and the context it returned.
Frame(maj_code, min_code) ==
    [maj_code |-> maj_code, min_code |-> min_code, is_maj |-> TRUE,
     pc |-> "first", ctx |-> 0, cont |-> FALSE, res |-> <<>>, log |-> <<>>,
     maj_statuses |-> <<>>]

Top == stack[Len(stack)]

SetTop(f) == [stack EXCEPT ![Len(stack)] = f]

\* The code get_all_statuses is decoding in frame f.
CodeOf(f) == IF f.is_maj THEN f.maj_code ELSE f.min_code

\* The frame is about to call display_status.
Querying(f) == f.pc = "first" \/ (f.pc = "loop" /\ f.cont)

\* The loop's call without message_context=ctx: every query passes 0.
message_context_default(f) == 0

\* display_status(code, is_maj) passes the default message_context=0, the
\* call in the loop passes message_context=ctx.
message_context(f) == IF f.pc = "first" THEN 0 ELSE f.ctx

\* call_again = bool(msg_ctx_out)
call_again(msg_ctx_out) == msg_ctx_out # 0

NoReport == [status |-> "none", maj_code |-> 0, min_code |-> 0, message |-> <<>>]

\* The except clause of get_all_statuses without "cont = False".
ExceptGSSError_continue(f) ==
    [f EXCEPT !.res = Append(@, Placeholder(CodeOf(f))), !.pc = "loop"]

\* What the except clause of get_all_statuses does to frame f.
ExceptGSSError(f) ==
    [f EXCEPT !.res = Append(@, Placeholder(CodeOf(f))),
              !.cont = FALSE, !.pc = "loop"]

\* GSSError(maj_code, min_code) is constructed by a caller: __init__ stores
\* the codes and calls gen_message, which enters get_all_statuses(maj_code,
\* True).
GSSError__init__(maj_code, min_code) ==
    /\ stack = <<>>
    /\ stack' = <<Frame(maj_code, min_code)>>
    /\ report' = NoReport
    /\ queried' = {}
    /\ nruns' = 1
    /\ nqueries' = 0
    /\ seen' = <<>>
    /\ UNCHANGED <<gen, namevars, concvars>>

\* display_status succeeds: gss_display_status returned GSS_S_COMPLETE, a
\* message and msg_ctx_out; get_all_statuses appends the message.
display_status(msg_ctx_out) ==
    /\ stack # <<>>
    /\ Querying(Top)
    /\ nqueries < MaxQueries
    /\ nqueries' = nqueries + 1
    /\ LET f == Top
           ctx_in == message_context(f)
           msg_out == StatusString(CodeOf(f), f.is_maj, ctx_in)
       IN /\ stack' = SetTop([f EXCEPT
                 !.res = Append(@, msg_out),
                 !.ctx = msg_ctx_out,
                 !.cont = call_again(msg_ctx_out),
                 !.pc = "loop",
                 !.log = Append(@, [ctx_in |-> ctx_in, ok |-> TRUE,
                                    ctx_out |-> msg_ctx_out])])
          /\ queried' = queried \cup {<<CodeOf(f), f.is_maj>>}
    /\ UNCHANGED <<report, nruns, gen, seen, namevars, concvars>>

\* display_status fails: gss_display_status returned maj_stat, min_stat with
\* maj_stat != GSS_S_COMPLETE, and display_status executes
\* raise GSSError(maj_stat, min_stat): the exception object is constructed
\* first, and its __init__ decodes maj_stat and min_stat in turn.  Past the
\* interpreter's recursion limit the construction ends in RecursionError,
\* which no "except GSSError" clause catches.
display_status_raise(maj_stat, min_stat) ==
    /\ stack # <<>>
    /\ Querying(Top)
    /\ nqueries < MaxQueries
    /\ nqueries' = nqueries + 1
    /\ maj_stat # GSS_S_COMPLETE
    /\ LET f == Top
           ctx_in == message_context(f)
           g == [f EXCEPT !.log = Append(@, [ctx_in |-> ctx_in, ok |-> FALSE,
                                             ctx_out |-> ctx_in])]
       IN /\ queried' = queried \cup {<<CodeOf(f), f.is_maj>>}
          /\ IF Len(stack) < MaxDepth
             THEN /\ stack' = Append(SetTop(g), Frame(maj_stat, min_stat))
                  /\ nruns' = nruns + 1
                  /\ UNCHANGED report
             ELSE /\ stack' = <<>>
                  /\ report' = [NoReport EXCEPT !.status = "RecursionError"]
                  /\ UNCHANGED nruns
    /\ UNCHANGED <<gen, seen, namevars, concvars>>

\* get_all_statuses returns res.  For the major code gen_message goes on to
\* get_all_statuses(min_code, False); for the minor code it formats the
\* message and __init__ is done: the outermost GSSError is the report, a
\* nested one is raised by display_status into the except clause of the
\* get_all_statuses that called it.
get_all_statuses_return ==
    /\ stack # <<>>
    /\ Top.pc = "loop" /\ ~Top.cont
    /\ LET f == Top
           message == FormatMessage(f.maj_code, f.maj_statuses,
                                    f.min_code, f.res)
           below == SubSeq(stack, 1, Len(stack) - 1)
       IN IF f.is_maj
          THEN /\ stack' = SetTop([f EXCEPT
                      !.maj_statuses = f.res, !.is_maj = FALSE,
                      !.pc = "first", !.ctx = 0, !.res = <<>>, !.log = <<>>])
               /\ nruns' = nruns + 1
               /\ UNCHANGED report
          ELSE IF below = <<>>
          THEN /\ stack' = <<>>
               /\ report' = [status |-> "GSSError", maj_code |-> f.maj_code,
                             min_code |-> f.min_code, message |-> message]
               /\ UNCHANGED nruns
          ELSE /\ stack' = [below EXCEPT
                      ![Len(below)] = ExceptGSSError(below[Len(below)])]
               /\ UNCHANGED <<report, nruns>>
    /\ UNCHANGED <<queried, nqueries, gen, seen, namevars, concvars>>

\* The provider's answers change: the same status code now has another
\* message.  Taken between constructions, after a report was built.
provider_changes ==
    /\ stack = <<>>
    /\ report.status = "GSSError"
    /\ gen' = 1 - gen
    /\ UNCHANGED <<stack, report, queried, nruns, nqueries, seen, namevars, concvars>>

\* A report whose message is composed when it is read, not when it is built.
GSSError__str__lazy ==
    /\ stack = <<>>
    /\ report.status = "GSSError"
    /\ seen' = FormatMessage(
                   report.maj_code,
                   <<StatusString(report.maj_code, TRUE, 0)>>,
                   report.min_code,
                   <<StatusString(report.min_code, FALSE, 0)>>)
    /\ nqueries' = nqueries + 2
    /\ UNCHANGED <<stack, report, queried, nruns, gen, namevars, concvars>>

\* str(report): the message __init__ handed to Exception.__init__.
GSSError__str__ ==
    /\ stack = <<>>
    /\ report.status = "GSSError"
    /\ seen' = report.message
    /\ UNCHANGED <<stack, report, queried, nruns, nqueries, gen, namevars, concvars>>

ErrInit ==
    /\ stack = <<>>
    /\ report = NoReport
    /\ queried = {}
    /\ nruns = 0
    /\ nqueries = 0
    /\ gen = 0
    /\ seen = <<>>

ErrNext ==
    \/ \E maj_code \in Codes, min_code \in Codes :
          GSSError__init__(maj_code, min_code)
    \/ \E msg_ctx_out \in Contexts : display_status(msg_ctx_out)
    \/ \E maj_stat \in Codes, min_stat \in Codes :
          display_status_raise(maj_stat, min_stat)
    \/ get_all_statuses_return

\* ------------------------------------------------ calls that drop the GIL
Threads == 1..MaxThreads

\* A thread that is in no call; made and answered are what the provider
\* allocated and answered in the thread's call, the other fields the call's
\* arguments, its C locals output_name, maj_stat, min_stat and its outcome.
NoCall ==
    [pc |-> "idle", op |-> "none", prim |-> "none", name |-> None,
     args |-> <<>>, output_name |-> GSS_C_NO_NAME, maj_stat |-> 0,
     min_stat |-> 0, made |-> GSS_C_NO_NAME, answered |-> <<0, 0>>,
     ret |-> None, exc |-> Returned]

\* Threads whose provider call is over and that wait for the GIL.
Waiting == {t \in Threads : thr[t].pc = "gil"}

\* output_name as a variable all calls share.
LocalOutput_static(t) == latest

\* output_name / canonicalized_name: a C local of the call of thread t.
LocalOutput(t) == thr[t].output_name

\* The "with nogil" block of import_name and canonicalize_name in thread t:
\* the GIL is dropped, the provider runs and stores its status and, on
\* success, the new handle in the call's locals.  On failure output_name
\* stays uninitialized; it is not read.
NoGil(t, op, prim, name, args, data, maj, min) ==
    /\ thr[t].pc # "gil"
    /\ Cardinality({w \in Wrappers : ~live[w]}) > Cardinality(Waiting)
    /\ maj = GSS_S_COMPLETE => Unallocated # {}
    /\ IF maj = GSS_S_COMPLETE
       THEN /\ origin' = [origin EXCEPT ![NewResource] = prim]
            /\ pname' = [pname EXCEPT ![NewResource] = data]
            /\ latest' = NewResource
            /\ thr' = [thr EXCEPT ![t] =
                  [NoCall EXCEPT !.pc = "gil", !.op = op, !.prim = prim,
                                 !.name = name, !.args = args,
                                 !.output_name = NewResource,
                                 !.made = NewResource,
                                 !.answered = <<maj, min>>,
                                 !.maj_stat = maj, !.min_stat = min]]
       ELSE /\ UNCHANGED <<origin, pname, latest>>
            /\ thr' = [thr EXCEPT ![t] =
                  [NoCall EXCEPT !.pc = "gil", !.op = op, !.prim = prim,
                                 !.name = name, !.args = args,
                                 !.answered = <<maj, min>>,
                                 !.maj_stat = maj, !.min_stat = min]]
    /\ UNCHANGED <<live, raw_name, released, calls, last, result, errvars>>

import_name_nogil(t, name, name_type, maj, min) ==
    LET nt == IF name_type = None THEN GSS_C_NO_OID ELSE name_type
        name_buffer == [length |-> Len(name), value |-> name]
    IN NoGil(t, "import_name", "gss_import_name", None, <<>>,
             [text |-> BufferBytes(name_buffer), type |-> nt, mech |-> FALSE,
              given |-> name],
             maj, min)

canonicalize_name_nogil(t, name, maj, min) ==
    /\ live[name]
    /\ NoGil(t, "canonicalize_name", "gss_canonicalize_name", name,
             <<raw_name[name]>>,
             [NameData(raw_name[name]) EXCEPT !.mech = TRUE], maj, min)

\* The rest of the call, with the GIL held again: cdef Name on = Name(); if
\* maj_stat == GSS_S_COMPLETE: on.raw_name = output_name; return on; else
\* raise GSSError(maj_stat, min_stat).
NewName_gil(t, on) ==
    /\ thr[t].pc = "gil"
    /\ ~live[on]
    /\ LET c == thr[t]
           call == Call(c.prim, c.args, c.maj_stat, c.min_stat)
       IN IF c.maj_stat = GSS_S_COMPLETE
          THEN /\ live' = [live EXCEPT ![on] = TRUE]
               /\ raw_name' = [raw_name EXCEPT ![on] = LocalOutput(t)]
               /\ calls' = <<call>>
               /\ last' = Op(c.op, on, c.name, GSS_C_NO_NAME, Returned)
               /\ result' = [ReturnedValue EXCEPT !.handle = on]
               /\ thr' = [thr EXCEPT ![t].pc = "done", ![t].ret = on]
          ELSE /\ UNCHANGED <<live, raw_name>>
               /\ calls' = <<call>>
                              \o DeallocCalls(GSS_C_NO_NAME, GSS_S_COMPLETE, 0)
               /\ last' = Op(c.op, None, c.name, GSS_C_NO_NAME,
                             Raised(c.maj_stat, c.min_stat))
               /\ result' = NoResult
               /\ thr' = [thr EXCEPT ![t].pc = "done",
                              ![t].exc = Raised(c.maj_stat, c.min_stat)]
    /\ UNCHANGED <<origin, released, pname, latest, errvars>>

ConcInit ==
    /\ thr = [t \in Threads |-> NoCall]
    /\ latest = GSS_C_NO_NAME

\* Threads that call import_name and canonicalize_name at the same time.
ConcNext ==
    \/ \E t \in Threads, st \in NameStatus :
          import_name_nogil(t, <<1>>, None, st[1], st[2])
    \/ \E t \in Threads, name \in Wrappers, st \in NameStatus :
          canonicalize_name_nogil(t, name, st[1], st[2])
    \/ \E t \in Threads, on \in Fresh : NewName_gil(t, on)

\* --------------------------------------------------------- specifications
Init == NameInit /\ ErrInit /\ ConcInit

\* The name layer, every operation.
Spec == Init /\ [][NameNext]_vars

\* The handle lifecycle alone: display_name, export_name and compare_name
\* write no field of a handle and no provider state, only calls, last and
\* result.
LifeSpec == Init /\ [][LifeNext]_vars

\* The construction of GSSError objects.
ErrSpec == Init /\ [][ErrNext]_vars

\* The construction of GSSError objects, the reading of their messages and
\* a provider whose messages change.
ReportNext ==
    \/ ErrNext
    \/ provider_changes
    \/ GSSError__str__

ReportSpec == Init /\ [][ReportNext]_vars

\* No operation has raised so far.
NoRaise == last.exc = Returned /\ stack = <<>> /\ report.status = "none"

\* The raise statement of the operation that failed: GSSError(maj_stat,
\* min_stat) is constructed from the codes the provider answered.
raise_GSSError ==
    /\ last.exc # Returned
    /\ report.status = "none"
    /\ GSSError__init__(last.exc[1], last.exc[2])

\* The operations up to the first that fails, and the construction of the
\* GSSError it raises.
RaiseNext ==
    \/ \E on \in Fresh, st \in NameStatus :
          NoRaise /\ import_name(on, <<1>>, None, st[1], st[2])
    \/ \E name \in Wrappers, on \in Fresh, st \in NameStatus :
          NoRaise /\ canonicalize_name(name, on, st[1], st[2])
    \/ \E name \in Wrappers, on \in Fresh, st \in NameStatus :
          NoRaise /\ duplicate_name(name, on, st[1], st[2])
    \/ \E name \in Wrappers, st \in NameStatus :
          NoRaise /\ display_name(name, TRUE, st[1], st[2], GSS_C_NO_OID)
    \/ \E name \in Wrappers, st \in NameStatus \cup {<<GSS_S_NAME_NOT_MN, 0>>} :
          NoRaise /\ export_name(name, st[1], st[2])
    \/ \E name1 \in Wrappers, name2 \in Wrappers, st \in NameStatus :
          NoRaise /\ compare_name(name1, name2, st[1], st[2], 0)
    \/ \E name \in Wrappers, st \in NameStatus, reset \in BOOLEAN :
          NoRaise /\ release_name(name, st[1], st[2], reset)
    \/ raise_GSSError
    \/ \E msg_ctx_out \in Contexts : display_status(msg_ctx_out)
    \/ \E maj_stat \in Codes, min_stat \in Codes :
          display_status_raise(maj_stat, min_stat)
    \/ get_all_statuses_return

RaiseSpec == Init /\ [][RaiseNext]_vars

\* import_name and canonicalize_name called from several threads.
ConcSpec == Init /\ [][ConcNext]_vars

\* The values that go through the name layer.
ValSpec == Init /\ [][ValNext]_vars

\* The bytes that go through import_name and display_name.
TextSpec == Init /\ [][TextNext]_vars

\* ------------------------------------------------------------ name claims
Holds(w, r) == live[w] /\ raw_name[w] = r

Allocated == {r \in Resources : origin[r] # "none"}

\* C1: in every reachable state no two live Name wrappers hold the same
\* non-sentinel resource.
C1_SingleOwner ==
    \A w1 \in Wrappers, w2 \in Wrappers :
        (w1 # w2 /\ live[w1] /\ live[w2] /\ raw_name[w1] # GSS_C_NO_NAME)
            => raw_name[w1] # raw_name[w2]

\* duplicate_name has just returned a second wrapper: two live wrappers hold
\* a resource each.
C1_Witness ==
    /\ last.op = "duplicate_name" /\ last.exc = Returned
    /\ live[last.self] /\ raw_name[last.self] # GSS_C_NO_NAME
    /\ live[last.arg] /\ raw_name[last.arg] # GSS_C_NO_NAME

\* C2 (as claimed): the release primitive is invoked on every resource a
\* successful import_name, canonicalize_name or duplicate_name produced
\* exactly once: never twice, never zero times once no wrapper owns it any
\* more; and destroying a wrapper that holds the sentinel invokes no release.
C2_ReleasedExactlyOnce ==
    /\ \A r \in Allocated :
          /\ released[r] <= 1
          /\ (\A w \in Wrappers : ~Holds(w, r)) => released[r] = 1
    /\ (last.op = "dealloc" /\ last.pre = GSS_C_NO_NAME) => calls = <<>>

\* C3: after new = Name(other), other holds the sentinel and new holds what
\* other held; the transfer invokes no provider primitive; other stays in
\* the sentinel state as long as it lives, and destroying a wrapper in the
\* sentinel state invokes no release.
C3_Transfer ==
    [][/\ \A new \in Wrappers, other \in Wrappers :
             (last'.op = "Name" /\ last'.self = new /\ last'.arg = other)
                 => /\ ~live[new] /\ live'[new] /\ live'[other]
                    /\ raw_name'[new] = raw_name[other]
                    /\ raw_name'[other] = GSS_C_NO_NAME
                    /\ calls' = <<>>
                    /\ origin' = origin /\ released' = released
       /\ \A w \in Wrappers :
             (live[w] /\ raw_name[w] = GSS_C_NO_NAME)
                 => IF live'[w]
                    THEN raw_name'[w] = GSS_C_NO_NAME
                    ELSE calls' = <<>> /\ released' = released
      ]_vars

\* Name(other) has just taken a resource from other.
C3_Witness ==
    /\ last.op = "Name" /\ last.arg # None /\ last.pre # GSS_C_NO_NAME
    /\ raw_name[last.self] = last.pre
    /\ raw_name[last.arg] = GSS_C_NO_NAME

\* C4 (as claimed): release_name on a handle in the sentinel state does not
\* fail and does not invoke the provider release primitive.
C4_ReleaseSentinelNoOp ==
    (last.op = "release_name" /\ last.pre = GSS_C_NO_NAME)
        => calls = <<>> /\ last.exc = Returned

\* C5 (as claimed): when the release primitive reports non-success, the
\* handle is reset to the sentinel all the same, so the primitive is never
\* invoked on that resource a second time.
C5_FailedReleaseResets ==
    /\ (last.op \in {"release_name", "dealloc"} /\ last.exc # Returned)
          => raw_name[last.self] = GSS_C_NO_NAME
    /\ \A r \in Allocated : released[r] <= 1

\* C6 (as claimed): every non-sentinel handle holds a resource that one
\* successful import, canonicalize or duplicate produced and on which the
\* release primitive has not been invoked; no other primitive is called with
\* a resource on which release was invoked.
C6_HeldNotReleased ==
    /\ \A w \in Wrappers :
          (live[w] /\ raw_name[w] # GSS_C_NO_NAME)
              => /\ origin[raw_name[w]] \in
                      {"gss_import_name", "gss_canonicalize_name",
                       "gss_duplicate_name"}
                 /\ released[raw_name[w]] = 0
    /\ \A i \in DOMAIN calls :
          calls[i].prim # "gss_release_name"
              => \A j \in DOMAIN calls[i].names :
                    calls[i].names[j] # GSS_C_NO_NAME
                        => released[calls[i].names[j]] = 0
\* ---------------------------------------------------------- error claims
\* C7 (as claimed): constructing a GSSError ends, whatever the provider
\* answers, in a report whose message holds at least one entry for the major
\* code and at least one for the minor code.
C7_ReportAlwaysBuilt ==
    report.status # "none"
        => /\ report.status = "GSSError"
           /\ Len(report.message[4]) >= 1
           /\ Len(report.message[8]) >= 1

\* C8 (as claimed): a failed lookup makes the decoder append the placeholder
\* for the code it is decoding, query the provider no more for it and return
\* its list; the failure never leaves get_all_statuses as an exception.
C8_DecodeFailureDegrades ==
    /\ report.status # "RecursionError"
    /\ \A k \in DOMAIN stack :
          LET f == stack[k]
              n == Len(f.log)
          IN \A i \in 1..n :
                ~f.log[i].ok
                    => /\ i = n
                       /\ k = Len(stack)
                            => /\ ~Querying(f)
                               /\ f.res # <<>>
                               /\ f.res[Len(f.res)] = Placeholder(CodeOf(f))

\* The queries of the decoder running in frame f, and its list so far.
DecoderChain(f) ==
    LET n == Len(f.log)
    IN /\ n >= 1 => f.log[1].ctx_in = 0
       /\ \A i \in 2..n :
             /\ f.log[i - 1].ok
             /\ f.log[i - 1].ctx_out # 0
             /\ f.log[i].ctx_in = f.log[i - 1].ctx_out
       /\ (n >= 1 /\ f.log[n].ok /\ f.log[n].ctx_out = 0) => ~Querying(f)
       /\ Len(f.res) <= n
       /\ \A i \in 1..n :
             f.log[i].ok
                 => /\ i <= Len(f.res)
                    /\ f.res[i] = StatusString(CodeOf(f), f.is_maj,
                                               f.log[i].ctx_in)
       /\ (\A i \in 1..n : f.log[i].ok) => Len(f.res) = n

\* C9: a decoder's first query passes context 0, every later query passes
\* the context the query before it returned (which succeeded with a non-zero
\* context), no query follows a successful one that returned context 0, and
\* the list holds the provider's messages in the order of the queries.
C9_ContextChain == \A k \in DOMAIN stack : DecoderChain(stack[k])

\* A decoder made three queries with two different non-zero contexts and is
\* about to return its three messages.
C9_Witness ==
    \E k \in DOMAIN stack :
        LET f == stack[k]
        IN /\ Len(f.log) = 3 /\ Len(f.res) = 3
           /\ f.log[2].ctx_in # f.log[3].ctx_in
           /\ f.log[3].ok /\ f.log[3].ctx_out = 0
           /\ f.pc = "loop" /\ ~f.cont

\* C10 (as claimed): a GSSError built from (major, minor) ran the decoder
\* exactly twice, the provider was queried about the major code as a major
\* code and the minor code as a minor code and about nothing else, and the
\* message holds "Major (<major>)", "Minor (<minor>)" and both lists.
C10_TwoDecoderRuns ==
    report.status = "GSSError"
        => /\ nruns = 2
           /\ queried \subseteq {<<report.maj_code, TRUE>>,
                                 <<report.min_code, FALSE>>}
           /\ report.message[1] = "Major ("
           /\ report.message[2] = report.maj_code
           /\ report.message[5] = ", Minor ("
           /\ report.message[6] = report.min_code
           /\ Len(report.message[4]) >= 1
           /\ Len(report.message[8]) >= 1

\* ---------------------------------------------------------- value claims
\* C12: compare_name returns True when both names are None and False when
\* exactly one is None, without invoking gss_compare_name and without
\* failing; when both are present it invokes the primitive once on the two
\* handles and what it returns is the provider's is_equal.
C12_CompareAbsent ==
    last.op = "compare_name" =>
        IF last.self = None \/ last.arg = None
        THEN /\ calls = <<>>
             /\ last.exc = Returned
             /\ result.returned
             /\ result.equal = (last.self = None /\ last.arg = None)
        ELSE /\ Len(calls) = 1
             /\ calls[1].prim = "gss_compare_name"
             /\ calls[1].names = <<raw_name[last.self], raw_name[last.arg]>>
             /\ result.returned = (calls[1].status[1] = GSS_S_COMPLETE)
             /\ result.returned => result.equal = (calls[1].out # 0)

\* compare_name(name, None) on a live name has returned False.
C12_Witness ==
    /\ last.op = "compare_name" /\ last.self # None /\ last.arg = None
    /\ live[last.self] /\ raw_name[last.self] # GSS_C_NO_NAME
    /\ result.returned /\ ~result.equal

\* C13: display_name passes a place for the name type to the provider exactly
\* when name_type is true.  With name_type false the type it returns is None;
\* with name_type true the type is None if the provider stored GSS_C_NO_OID
\* (and the call still succeeds), else the OID the provider stored.
C13_DisplayType ==
    last.op = "display_name" =>
        /\ Len(calls) = 1
        /\ calls[1].prim = "gss_display_name"
        /\ calls[1].type_ptr = (last.arg = 1)
        /\ result.returned = (calls[1].status[1] = GSS_S_COMPLETE)
        /\ result.returned =>
              result.name_type =
                 IF last.arg = 1 /\ calls[1].out # GSS_C_NO_OID
                 THEN calls[1].out ELSE None

\* display_name asked for the type of a typed name and the provider answered
\* GSS_C_NO_OID: the call returned, with type None.
C13_Witness ==
    /\ last.op = "display_name" /\ last.arg = 1
    /\ NameData(last.pre).type # GSS_C_NO_OID
    /\ calls[1].type_ptr /\ calls[1].out = GSS_C_NO_OID
    /\ result.returned /\ result.name_type = None

\* A name that is not a mechanism name: imported, or duplicated from one.
Generic(h) == h # GSS_C_NO_NAME /\ released[h] = 0 /\ ~pname[h].mech

C16_RoundTrip ==
    (/\ last.op = "display_name" /\ result.returned
     /\ last.pre # GSS_C_NO_NAME
     /\ origin[last.pre] = "gss_import_name")
        => result.text = pname[last.pre].given

\* A name imported from a byte string that contains a NUL has been displayed.
C16_Witness ==
    /\ last.op = "display_name" /\ result.returned
    /\ last.pre # GSS_C_NO_NAME
    /\ origin[last.pre] = "gss_import_name"
    /\ \E i \in DOMAIN result.text : result.text[i] = 0

\* ------------------------------------------------------ lifecycle claims
\* C17: a successful canonicalize_name or duplicate_name returns a new Name
\* that holds a resource the provider had not handed out before, distinct
\* from the input's, and leaves the input as it was; and release_name or the
\* destruction of one Name changes neither the handle of any other Name nor
\* the release count of the resource another Name holds.
C17_CopyIsIndependent ==
    [][/\ (/\ last'.op \in {"canonicalize_name", "duplicate_name"}
           /\ last'.exc = Returned)
             => LET on == last'.self
                    name == last'.arg
                IN /\ ~live[on] /\ live'[on] /\ live'[name]
                   /\ raw_name'[on] # GSS_C_NO_NAME
                   /\ raw_name'[on] # raw_name[name]
                   /\ origin[raw_name'[on]] = "none"
                   /\ raw_name'[name] = raw_name[name]
       /\ last'.op \in {"release_name", "dealloc"}
             => \A v \in Wrappers \ {last'.self} :
                   live[v]
                      => /\ live'[v]
                         /\ raw_name'[v] = raw_name[v]
                         /\ raw_name[v] # GSS_C_NO_NAME =>
                               released'[raw_name[v]] = released[raw_name[v]]
      ]_vars

\* One of two names was released or destroyed; the other, which
\* canonicalize_name or duplicate_name returned, still holds its resource,
\* on which release was never invoked.
C17_Witness ==
    /\ last.op \in {"release_name", "dealloc"}
    /\ last.pre # GSS_C_NO_NAME
    /\ \E v \in Wrappers :
          /\ v # last.self /\ live[v] /\ raw_name[v] # GSS_C_NO_NAME
          /\ origin[raw_name[v]] \in
                {"gss_canonicalize_name", "gss_duplicate_name"}
          /\ released[raw_name[v]] = 0

\* C19: when import_name, canonicalize_name or duplicate_name raises, no Name
\* comes into existence, every Name (the input too) holds what it held, the
\* provider has handed out no resource, and gss_release_name is not invoked:
\* the temporary Name holds GSS_C_NO_NAME when it is destroyed.
C19_FailedCreateLeavesNothing ==
    [][(/\ last'.op \in {"import_name", "canonicalize_name", "duplicate_name"}
        /\ last'.exc # Returned)
          => /\ live' = live /\ raw_name' = raw_name
             /\ origin' = origin /\ released' = released
             /\ result' = NoResult
             /\ \A i \in DOMAIN calls' : calls'[i].prim # "gss_release_name"
      ]_vars

\* canonicalize_name on a Name that holds a resource has raised.
C19_Witness ==
    /\ last.op = "canonicalize_name" /\ last.exc # Returned
    /\ live[last.arg] /\ raw_name[last.arg] # GSS_C_NO_NAME
    /\ Len(calls) = 1 /\ calls[1].status = last.exc

\* ---------------------------------------------------------- report claims
\* C14: once a GSSError is built, its message and codes stay what they were
\* when the provider's messages change, and reading the message returns that
\* stored message and makes no gss_display_status call.
C14_MessageComposedOnce ==
    [][(report.status = "GSSError" /\ stack' = <<>>)
          => /\ report' = report
             /\ nqueries' = nqueries /\ queried' = queried /\ nruns' = nruns
             /\ seen' = seen \/ seen' = report.message
      ]_vars

\* The message was read after the provider's messages changed: it holds the
\* provider's earlier answer to the query about the major code.
C14_Witness ==
    /\ report.status = "GSSError"
    /\ seen = report.message
    /\ report.message[4] # <<>>
    /\ report.message[4][1] # StatusString(report.maj_code, TRUE, 0)
    /\ report.message[4][1] # Placeholder(report.maj_code)

\* C20: when get_all_statuses returns its list, the list has one entry for
\* each gss_display_status call the decoder made, and the placeholder occurs
\* in it only as the last entry, for a call that failed.
C20_OneEntryPerQuery ==
    \A k \in DOMAIN stack :
        LET f == stack[k]
        IN (f.pc = "loop" /\ ~f.cont)
              => /\ Len(f.res) = Len(f.log)
                 /\ \A i \in DOMAIN f.res :
                       f.res[i] = Placeholder(CodeOf(f))
                          => i = Len(f.res) /\ ~f.log[i].ok

\* A decoder is about to return two messages followed by the placeholder.
C20_Witness ==
    \E k \in DOMAIN stack :
        LET f == stack[k]
        IN /\ f.pc = "loop" /\ ~f.cont
           /\ Len(f.res) = 3
           /\ f.res[3] = Placeholder(CodeOf(f))
           /\ f.log[1].ok /\ f.log[2].ok /\ ~f.log[3].ok

C11_FailureRaisesReport ==
    /\ (/\ last.op \in {"import_name", "display_name", "compare_name",
                        "export_name", "canonicalize_name", "duplicate_name",
                        "release_name"}
        /\ calls # <<>>
        /\ calls[1].status[1] # GSS_S_COMPLETE)
          => /\ last.exc = calls[1].status
             /\ result = NoResult
    /\ (last.exc # Returned /\ report.status # "none")
          => /\ report.status = "GSSError"
             /\ report.maj_code = last.exc[1]
             /\ report.min_code = last.exc[2]

====
